---- MODULE Spec2Model ----
(***************************************************************************)
(* A model of the compiler middle-end: the reaching-definitions lattice    *)
(* and block transfer (src/src/reach_lattice.rs), the forward worklist     *)
(* solver that drives them, and the Program / Function storage builders    *)
(* (src/src/ir/mod.rs).                                                    *)
(*                                                                         *)
(* The module holds these state machines over one set of variables:        *)
(*   SpecLattice   meet / meet_with on bool and on ReachLattice            *)
(*   SpecTransfer  transfer_forward of one block                           *)
(*   SpecSolve     the forward worklist solver over a control-flow graph   *)
(*   SpecBuild     the builder calls on one Program                        *)
(*   SpecConst     lookup_or_insert_constant among other declarations      *)
(*   SpecDeclare   declare_space on aggregate types                        *)
(*   SpecBlocks    lookup_or_insert_block for jumps and labels             *)
(*   SpecReach     gen_var, kill_var and the boundary values of a graph    *)
(*   SpecMonotone  transfer_forward on two inputs                          *)
(***************************************************************************)
EXTENDS Integers, Sequences, FiniteSets, TLC

VARIABLES
    \* ---- lattice operands (SpecLattice)
    self_reach,        \* the ReachLattice `self` of meet / meet_with
    other_reach,       \* the ReachLattice `other`
    self_bool,         \* the bool `self`
    other_bool,        \* the bool `other`
    \* ---- one function's graph (SpecTransfer, SpecSolve)
    weight,            \* CodeBlockGraphWeight: assignment_count, variable_assignment_map
    irs_range,         \* block index -> its sequence of IR instructions
    edges,             \* set of <<from, to>> control-flow edges
    reach_in,          \* block index -> ReachLattice (CodeBlockAnalysisNode.reach_in)
    reach_out,         \* block index -> ReachLattice (CodeBlockAnalysisNode.reach_out)
    in_value,          \* the `in_value` argument of transfer_forward (SpecTransfer)
    worklist,          \* the solver's queue of block indices
    pc,                \* the solver's position: "idle", "running", "done"
    runs,              \* number of completed solver runs on this graph
    changes,           \* rounds of the current run in which a block's out changed
    snapshot,          \* the in / out facts a re-run started from (None on the first run)
    \* ---- one Program (SpecBuild)
    pools,             \* pool name -> MonotonicNamedPool: next logical id, entities
    globals,           \* Program.globals  (name map over the space pool)
    constants,         \* Program.constants (name map keyed by Value)
    functions,         \* Program.functions (name map over the function pool)
    issued,            \* Space logical ids in the order they were issued
    declared,          \* the named declarations made: scope, name, logical id
    const_calls,       \* the lookup_or_insert_constant calls made: value, logical id
    bind_policy,       \* the duplicate-binding policy of MonotonicNameMap::bind
    \* ---- the front end's use of one Program's blocks (SpecBlocks)
    block_calls,       \* the lookup_or_insert_block calls made: function, name, logical id
    markers,           \* the AddressMarkers held by emitted jumps: function, label, marker
    labels,            \* the labels declared: function, name
    finished,          \* the Functions whose construction has ended, with their build errors
    \* ---- the last call and what it returned (all specifications)
    ret

latticeVars == <<self_reach, other_reach, self_bool, other_bool>>
graphVars   == <<weight, irs_range, edges, reach_in, reach_out, in_value,
                 worklist, pc, runs, changes, snapshot>>
frontVars   == <<block_calls, markers, labels, finished>>
buildVars   == <<pools, globals, constants, functions, issued, declared,
                 const_calls, bind_policy, frontVars>>
vars        == <<latticeVars, graphVars, buildVars, ret>>

\* ---------------------------------------------------------------- bounds
\* Largest assignment_count (bit-vector capacity) explored.
MaxAssign == 3

NoCall == [op |-> "none"]

\* Option<T>: None is the empty sequence, Some(x) the sequence of x alone.
None == <<>>
Some(x) == <<x>>

\* ------------------------------------------------------------ FixedBitSet
\* A FixedBitSet is its length and the set of indices whose bit is 1.
with_capacity(n) == [len |-> n, bits |-> {}]

BitSets(n) == {[len |-> n, bits |-> s] : s \in SUBSET (0 .. n - 1)}

Max2(x, y) == IF x >= y THEN x ELSE y

\* FixedBitSet::union_with grows self to other's length, then ors the blocks.
union_with(s, o) == [len |-> Max2(s.len, o.len), bits |-> s.bits \cup o.bits]

\* FixedBitSet::intersect_with ands the blocks and clears what lies past other.
intersect_with(s, o) == [len |-> s.len, bits |-> s.bits \cap o.bits]

\* FixedBitSet::toggle_range(..) flips every bit below the length.
toggle_range(s) == [len |-> s.len, bits |-> (0 .. s.len - 1) \ s.bits]

\* FixedBitSet::set(i, true); the index is below the length at every use.
set_bit(s, i) == [len |-> s.len, bits |-> s.bits \cup {i}]

\* --------------------------------------------------- impl SemiLattice for bool
bool_meet(self, other) == self \/ other

\* meet_with returns the pair <<value left in self, returned flag>>.
bool_meet_with(self, other) ==
    IF self = other THEN <<self, FALSE>> ELSE <<other, TRUE>>

\* ------------------------------------------- impl SemiLattice for ReachLattice
ReachLattice_new(capacity) == [value |-> with_capacity(capacity)]

reach_meet(self, other) == [value |-> union_with(self.value, other.value)]

\* A meet_with that reports a change on every call.
reach_meet_with_always(self, other) ==
    <<[value |-> union_with(self.value, other.value)], TRUE>>

reach_meet_with(self, other) ==
    IF self.value = other.value
    THEN <<self, FALSE>>
    ELSE <<[value |-> union_with(self.value, other.value)], TRUE>>

ReachLattices(n) == {[value |-> v] : v \in BitSets(n)}

\* ------------------------------------------------------------ idle values
\* The graph of a Function before any block is added (DataFlowGraph::new with
\* CodeBlockGraphWeight::default()).
GraphIdle ==
    /\ weight = [assignment_count |-> 0, variable_assignment_map |-> <<>>]
    /\ irs_range = <<>>
    /\ edges = {}
    /\ reach_in = <<>>
    /\ reach_out = <<>>
    /\ in_value = ReachLattice_new(0)
    /\ worklist = <<>>
    /\ pc = "idle"
    /\ runs = 0
    /\ changes = 0
    /\ snapshot = None

LatticeIdle ==
    /\ self_reach = ReachLattice_new(0)
    /\ other_reach = ReachLattice_new(0)
    /\ self_bool = FALSE
    /\ other_bool = FALSE

\* ============================================================ SpecLattice
\* The operands are any two bit-vectors of one capacity and any two bools;
\* each action is one call, meet_with mutating `self` in place.
BoolMeet ==
    /\ ret' = [op |-> "bool_meet", self |-> self_bool, other |-> other_bool,
               result |-> bool_meet(self_bool, other_bool)]
    /\ UNCHANGED <<latticeVars, graphVars, buildVars>>

BoolMeetWith ==
    LET r == bool_meet_with(self_bool, other_bool) IN
    /\ self_bool' = r[1]
    /\ ret' = [op |-> "bool_meet_with", self |-> self_bool, other |-> other_bool,
               changed |-> r[2]]
    /\ UNCHANGED <<self_reach, other_reach, other_bool, graphVars, buildVars>>

ReachMeet ==
    /\ ret' = [op |-> "reach_meet", self |-> self_reach, other |-> other_reach,
               result |-> reach_meet(self_reach, other_reach)]
    /\ UNCHANGED <<latticeVars, graphVars, buildVars>>

ReachMeetWith ==
    LET r == reach_meet_with(self_reach, other_reach) IN
    /\ self_reach' = r[1]
    /\ ret' = [op |-> "reach_meet_with", self |-> self_reach, other |-> other_reach,
               changed |-> r[2]]
    /\ UNCHANGED <<other_reach, self_bool, other_bool, graphVars, buildVars>>

NextLattice == BoolMeet \/ BoolMeetWith \/ ReachMeet \/ ReachMeetWith

\* ============================================================ identifiers
\* MonotonicNamedPool: a counter of logical ids starting at `origin` and the
\* entities stored under the ids issued so far.
MonotonicNamedPool_new(origin) == [next |-> origin, items |-> <<>>]

\* MonotonicNamedPool::insert: the entity is stored under the next logical id.
pool_insert(pool, entity) ==
    [pool |-> [next |-> pool.next + 1,
               items |-> (pool.next :> entity) @@ pool.items],
     name_id |-> pool.next]

\* MonotonicNamedPool::create_map: an empty name map that allocates from `pool_key`.
create_map(pool_key) == [pool |-> pool_key, names |-> <<>>]

\* MonotonicNameMap::bind under the policy in force: the last bind wins, or
\* the first bind is kept.
bind(policy, map, name, name_id) ==
    IF policy = "first_wins" /\ name \in DOMAIN map.names
    THEN map
    ELSE [map EXCEPT !.names = (name :> name_id) @@ map.names]

BindPolicies == {"last_wins", "first_wins"}

\* Program::new with the constants map created from the block pool.
Program_new_constants_on_block_pool ==
    [pools     |-> [space    |-> MonotonicNamedPool_new(1),
                    block    |-> MonotonicNamedPool_new(1),
                    function |-> MonotonicNamedPool_new(1)],
     globals   |-> create_map("space"),
     functions |-> create_map("function"),
     constants |-> create_map("block")]

\* Program::new: three pools with origin 1; globals and constants share the
\* space pool, functions use the function pool.
Program_new ==
    [pools     |-> [space    |-> MonotonicNamedPool_new(1),
                    block    |-> MonotonicNamedPool_new(1),
                    function |-> MonotonicNamedPool_new(1)],
     globals   |-> create_map("space"),
     functions |-> create_map("function"),
     constants |-> create_map("space")]

FrontIdle ==
    /\ block_calls = {}
    /\ markers = {}
    /\ labels = {}
    /\ finished = {}

BuildIdle ==
    /\ pools = Program_new.pools
    /\ globals = Program_new.globals
    /\ constants = Program_new.constants
    /\ functions = Program_new.functions
    /\ issued = <<>>
    /\ declared = {}
    /\ const_calls = {}
    /\ bind_policy = "last_wins"
    /\ FrontIdle

InitLattice ==
    /\ \E n \in 0 .. MaxAssign :
          /\ self_reach \in ReachLattices(n)
          /\ other_reach \in ReachLattices(n)
    /\ self_bool \in BOOLEAN
    /\ other_bool \in BOOLEAN
    /\ GraphIdle
    /\ BuildIdle
    /\ ret = NoCall

SpecLattice == InitLattice /\ [][NextLattice]_vars

\* C4: whenever meet_with has just returned, on bool or on ReachLattice, its
\* flag is TRUE exactly when the value left in `self` differs from the value
\* `self` held before the call.
C4_MeetWithFlagIffAltered ==
    /\ ret.op = "bool_meet_with" => (ret.changed <=> (self_bool # ret.self))
    /\ ret.op = "reach_meet_with" => (ret.changed <=> (self_reach # ret.self))

\* C15 (meet_with agrees with meet): whenever meet_with has just returned, on
\* bool or on ReachLattice, the value it left in `self` is the value the pure
\* meet returns on the operands of the call.
C15_MeetWithAgreesWithMeet ==
    /\ ret.op = "bool_meet_with" => self_bool = bool_meet(ret.self, ret.other)
    /\ ret.op = "reach_meet_with" => self_reach = reach_meet(ret.self, ret.other)

\* ================================================================== IR
\* IR::Assignment(dest, _, info) and IR::Command(_, info), with
\* info.declaration_number.
Assignment(dest, declaration_number) ==
    [kind |-> "Assignment", dest |-> dest, declaration_number |-> declaration_number]
Command == [kind |-> "Command", dest |-> "", declaration_number |-> None]

\* IR::Jump(JumpOperation::Next, IRInformation::default()).
JumpNext == [kind |-> "Jump", dest |-> "", declaration_number |-> None]

\* The Spaces instructions assign.
Vars == {"a", "b", "c"}

\* Longest instruction sequence of a block.
MaxIrs == 3

\* An instruction before numbering: the Space it assigns, or "" for a Command.
Protos == Vars \cup {""}

SeqsUpTo(S, n) == UNION {[1 .. k -> S] : k \in 0 .. n}

AssignmentsIn(protos) == Cardinality({i \in DOMAIN protos : protos[i] # ""})

RECURSIVE AssignmentsBefore(_, _)
AssignmentsBefore(protoBlocks, b) ==
    IF b <= 1 THEN 0
    ELSE AssignmentsBefore(protoBlocks, b - 1) + AssignmentsIn(protoBlocks[b - 1])

\* The scan that numbers the Assignments of a Function in block and program
\* order, giving each the next declaration number from 0.
NumberBlocks(protoBlocks) ==
    [b \in DOMAIN protoBlocks |->
        [i \in DOMAIN protoBlocks[b] |->
            IF protoBlocks[b][i] = "" THEN Command
            ELSE Assignment(protoBlocks[b][i],
                   Some(AssignmentsBefore(protoBlocks, b)
                        + AssignmentsIn(SubSeq(protoBlocks[b], 1, i - 1))))]]

\* CodeBlockGraphWeight of the numbered blocks: the number of declaration
\* numbers, and for each Space the declaration numbers that assign it.
ComputeWeight(blocks) ==
    LET all == {<<b, i>> \in (DOMAIN blocks) \X (1 .. MaxIrs) :
                   i \in DOMAIN blocks[b] /\ blocks[b][i].kind = "Assignment"}
    IN [assignment_count |-> Cardinality(all),
        variable_assignment_map |->
            [v \in {blocks[x[1]][x[2]].dest : x \in all} |->
                {blocks[x[1]][x[2]].declaration_number[1] :
                    x \in {y \in all : blocks[y[1]][y[2]].dest = v}}]]

\* --------------------------------------------------------- ReachLattice
\* A call that does not return: todo!(), or an assertion of FixedBitSet.
Panic == [panic |-> TRUE]

\* A gen_var that sets every bit up to the instruction's declaration number.
gen_var_up_to(ir, code_block_graph_weight) ==
    LET set == with_capacity(code_block_graph_weight.assignment_count) IN
    IF ir.kind = "Assignment" /\ ir.declaration_number # None
    THEN IF ir.declaration_number[1] < set.len
         THEN [value |-> [set EXCEPT !.bits = 0 .. ir.declaration_number[1]]]
         ELSE Panic
    ELSE [value |-> set]

\* ReachLattice::gen_var: only the instruction's own declaration number is 1.
\* FixedBitSet::set panics on an index that is not below the length.
gen_var(ir, code_block_graph_weight) ==
    LET set == with_capacity(code_block_graph_weight.assignment_count) IN
    IF ir.kind = "Assignment" /\ ir.declaration_number # None
    THEN IF ir.declaration_number[1] < set.len
         THEN [value |-> set_bit(set, ir.declaration_number[1])]
         ELSE Panic
    ELSE [value |-> set]

\* ReachLattice::kill_var: the body is todo!(), which panics on every call.
kill_var(ir, code_block_graph_weight) == Panic

\* ReachLattice::kill_mask_var: kill_var, then every bit toggled.
kill_mask_var(ir, code_block_graph_weight) ==
    LET set == kill_var(ir, code_block_graph_weight) IN
    IF set = Panic THEN Panic ELSE [value |-> toggle_range(set.value)]

\* A transfer_forward whose toggle_range(..) is applied to current_gen instead
\* of current_kill_mask: gen is all ones and the kill mask all zeros.
transfer_forward_toggle_gen(node_irs, in_value_arg, graph_weight) ==
    LET current_gen       == toggle_range(with_capacity(graph_weight.assignment_count))
        current_kill_mask == with_capacity(graph_weight.assignment_count)
        res_out1          == intersect_with(in_value_arg.value, current_kill_mask)
        res_out2          == union_with(res_out1, current_gen)
    IN [value |-> res_out2]

\* A transfer_forward whose toggle_range(..) is applied to res_out instead of
\* current_kill_mask before the mask is intersected.
transfer_forward_toggle_in(node_irs, in_value_arg, graph_weight) ==
    LET current_gen       == with_capacity(graph_weight.assignment_count)
        current_kill_mask == toggle_range(with_capacity(graph_weight.assignment_count))
        res_out0          == toggle_range(in_value_arg.value)
        res_out1          == intersect_with(res_out0, current_kill_mask)
        res_out2          == union_with(res_out1, current_gen)
    IN [value |-> res_out2]

\* CodeBlockAnalysisNode::transfer_forward. The scan of the block's
\* instructions is not part of the function: gen stays empty and the kill mask
\* stays all ones, so the block's instructions (node_irs) are not read.
transfer_forward(node_irs, in_value_arg, graph_weight) ==
    LET current_gen       == with_capacity(graph_weight.assignment_count)
        current_kill_mask == toggle_range(with_capacity(graph_weight.assignment_count))
        res_out1          == intersect_with(in_value_arg.value, current_kill_mask)
        res_out2          == union_with(res_out1, current_gen)
    IN [value |-> res_out2]

\* A top with every bit set.
top_all_ones(graph_weight) ==
    [value |-> toggle_range(with_capacity(graph_weight.assignment_count))]

\* CodeBlockAnalysisNode::top: the bit-vector of assignment_count zeros.
top(graph_weight) == ReachLattice_new(graph_weight.assignment_count)

\* CodeBlockAnalysisNode::entry_out.
entry_out(graph_weight) == top(graph_weight)

\* CodeBlockAnalysisNode::bottom: top with every bit toggled.
bottom(graph_weight) == [value |-> toggle_range(top(graph_weight).value)]

Bits(l) == l.value.bits

\* =========================================================== SpecTransfer
\* A Function of two blocks: a lead block of at most one instruction, which
\* shifts the declaration numbers, and a block of at most MaxIrs instructions.
\* transfer_forward is applied to either block on any input of the universe.
InitTransfer ==
    /\ \E lead \in SeqsUpTo(Protos, 1), body \in SeqsUpTo(Protos, MaxIrs) :
          /\ irs_range = NumberBlocks(<<lead, body>>)
          /\ weight = ComputeWeight(irs_range)
          /\ in_value \in ReachLattices(weight.assignment_count)
          /\ reach_in = [b \in 1 .. 2 |-> top(weight)]
          /\ reach_out = [b \in 1 .. 2 |-> top(weight)]
    /\ edges = {<<1, 2>>}
    /\ worklist = <<>>
    /\ pc = "idle"
    /\ runs = 0
    /\ changes = 0
    /\ snapshot = None
    /\ LatticeIdle
    /\ BuildIdle
    /\ ret = NoCall

TransferForward(b) ==
    /\ ret' = [op |-> "transfer_forward", block |-> b, in_value |-> in_value,
               out |-> transfer_forward(irs_range[b], in_value, weight)]
    /\ UNCHANGED <<latticeVars, graphVars, buildVars>>

NextTransfer == \E b \in DOMAIN irs_range : TransferForward(b)

SpecTransfer == InitTransfer /\ [][NextTransfer]_vars

\* The block transfer_forward was last applied to holds exactly three
\* Assignments (declaration numbers d1 < d2 < d3 by the numbering scan) and
\* the input was the empty set.
ThreeAssignmentsOnEmpty ==
    /\ ret.op = "transfer_forward"
    /\ ret.in_value.value.bits = {}
    /\ Len(irs_range[ret.block]) = 3
    /\ \A i \in 1 .. 3 : irs_range[ret.block][i].kind = "Assignment"

DeclOf(b, i) == irs_range[b][i].declaration_number[1]

\* C1 (kill law): a block of three Assignments d1 < d2 < d3 where d1 and d3
\* assign one Space and d2 another: transfer_forward of the empty set returns
\* exactly {d2, d3}.
C1_KillLaw ==
    (/\ ThreeAssignmentsOnEmpty
     /\ irs_range[ret.block][1].dest = irs_range[ret.block][3].dest
     /\ irs_range[ret.block][2].dest # irs_range[ret.block][1].dest)
    => ret.out.value.bits = {DeclOf(ret.block, 2), DeclOf(ret.block, 3)}

\* C2 (gen law): a block of three Assignments d1 < d2 < d3 to three different
\* Spaces: transfer_forward of the empty set returns exactly {d1, d2, d3}.
C2_GenLaw ==
    (/\ ThreeAssignmentsOnEmpty
     /\ Cardinality({irs_range[ret.block][i].dest : i \in 1 .. 3}) = 3)
    => ret.out.value.bits = {DeclOf(ret.block, 1), DeclOf(ret.block, 2),
                             DeclOf(ret.block, 3)}

\* ============================================================== SpecReach
\* The per-instruction functions and the boundary values of reaching
\* definitions on one Function's graph weight. The instructions handed to
\* gen_var / kill_var are those of the graph, a Jump, a Command, an Assignment
\* without a declaration number, and Assignments with any number up to
\* assignment_count itself.
ReachVars == {"a", "b"}

InitReach ==
    /\ \E lead \in SeqsUpTo({"a"}, 1), body \in SeqsUpTo(ReachVars \cup {""}, MaxIrs) :
          /\ irs_range = NumberBlocks(<<lead, body>>)
          /\ weight = ComputeWeight(irs_range)
          /\ in_value \in ReachLattices(weight.assignment_count)
          /\ reach_in = [b \in 1 .. 2 |-> top(weight)]
          /\ reach_out = [b \in 1 .. 2 |-> top(weight)]
    /\ edges = {<<1, 2>>}
    /\ worklist = <<>>
    /\ pc = "idle"
    /\ runs = 0
    /\ changes = 0
    /\ snapshot = None
    /\ LatticeIdle
    /\ BuildIdle
    /\ ret = NoCall

GraphIrs == UNION {{irs_range[b][i] : i \in DOMAIN irs_range[b]} : b \in DOMAIN irs_range}

ReachIrs ==
    GraphIrs
    \cup {Assignment(v, Some(d)) : v \in ReachVars, d \in 0 .. weight.assignment_count}
    \cup {Assignment(v, None) : v \in ReachVars}
    \cup {Command, JumpNext}

GenVar(ir) ==
    /\ ret' = [op |-> "gen_var", ir |-> ir, result |-> gen_var(ir, weight)]
    /\ UNCHANGED <<latticeVars, graphVars, buildVars>>

KillVar(ir) ==
    /\ ret' = [op |-> "kill_var", ir |-> ir, result |-> kill_var(ir, weight)]
    /\ UNCHANGED <<latticeVars, graphVars, buildVars>>

KillMaskVar(ir) ==
    /\ ret' = [op |-> "kill_mask_var", ir |-> ir, result |-> kill_mask_var(ir, weight)]
    /\ UNCHANGED <<latticeVars, graphVars, buildVars>>

Top ==
    /\ ret' = [op |-> "top", result |-> top(weight)]
    /\ UNCHANGED <<latticeVars, graphVars, buildVars>>

Bottom ==
    /\ ret' = [op |-> "bottom", result |-> bottom(weight)]
    /\ UNCHANGED <<latticeVars, graphVars, buildVars>>

EntryOut ==
    /\ ret' = [op |-> "entry_out", result |-> entry_out(weight)]
    /\ UNCHANGED <<latticeVars, graphVars, buildVars>>

\* SemiLattice::meet of top with the fact in_value.
MeetTop ==
    /\ ret' = [op |-> "meet_top", x |-> in_value,
               result |-> reach_meet(top(weight), in_value)]
    /\ UNCHANGED <<latticeVars, graphVars, buildVars>>

NextReach ==
    \/ \E ir \in ReachIrs : GenVar(ir)
    \/ \E ir \in ReachIrs : KillVar(ir)
    \/ \E ir \in ReachIrs : KillMaskVar(ir)
    \/ Top
    \/ Bottom
    \/ EntryOut
    \/ MeetTop

SpecReach == InitReach /\ [][NextReach]_vars

\* The declaration numbers the spec's kill_var holds for an instruction: for
\* an Assignment of the graph, those recorded for its destination without its
\* own; none for any other instruction.
KillSet(ir) ==
    IF ir.kind = "Assignment" /\ ir \in GraphIrs
    THEN weight.variable_assignment_map[ir.dest] \ {ir.declaration_number[1]}
    ELSE {}

\* C16 (kill_var): for an Assignment of the graph to Space s with declaration
\* number d, kill_var returns the bit-vector of the declaration numbers
\* recorded for s without d; for a Jump or a Command it returns the empty
\* bit-vector; kill_mask_var returns the complement over assignment_count.
C16_KillVar ==
    (/\ ret.op \in {"kill_var", "kill_mask_var"}
     /\ ret.ir \in GraphIrs \cup {Command, JumpNext})
    => /\ ret.op = "kill_var" =>
             ret.result = [value |-> [len |-> weight.assignment_count,
                                      bits |-> KillSet(ret.ir)]]
       /\ ret.op = "kill_mask_var" =>
             ret.result = [value |-> [len |-> weight.assignment_count,
                                      bits |-> (0 .. weight.assignment_count - 1)
                                                  \ KillSet(ret.ir)]]

\* C17 (gen_var): gen_var returns a bit-vector of capacity assignment_count;
\* for an Assignment with declaration number d < assignment_count exactly bit
\* d is set; for a Jump, a Command or an Assignment without a declaration
\* number no bit is set.
C17_GenVar ==
    ret.op = "gen_var" =>
        /\ (/\ ret.ir.kind = "Assignment"
            /\ ret.ir.declaration_number # None
            /\ ret.ir.declaration_number[1] < weight.assignment_count)
           => ret.result = [value |-> [len |-> weight.assignment_count,
                                       bits |-> {ret.ir.declaration_number[1]}]]
        /\ (ret.ir.kind \in {"Jump", "Command"} \/ ret.ir.declaration_number = None)
           => ret.result = [value |-> [len |-> weight.assignment_count, bits |-> {}]]

\* gen_var was applied to the last of at least three Assignments of a graph.
C17_Witness ==
    /\ ret.op = "gen_var"
    /\ ret.ir \in GraphIrs
    /\ ret.ir.kind = "Assignment"
    /\ weight.assignment_count >= 3
    /\ ret.ir.declaration_number = Some(weight.assignment_count - 1)

\* C20 (boundary values): top is the bit-vector of length assignment_count
\* with no bit set and entry_out equals it; bottom is the bit-vector of that
\* length with every bit set; meet(top, x) = x for every x of that length.
C20_BoundaryValues ==
    /\ ret.op \in {"top", "entry_out"} =>
          ret.result = [value |-> [len |-> weight.assignment_count, bits |-> {}]]
    /\ ret.op = "bottom" =>
          ret.result = [value |-> [len |-> weight.assignment_count,
                                   bits |-> 0 .. weight.assignment_count - 1]]
    /\ ret.op = "meet_top" => ret.result = ret.x

\* top was met with a fact that is neither empty nor full.
C20_Witness ==
    /\ ret.op = "meet_top"
    /\ weight.assignment_count >= 2
    /\ ret.x.value.bits # {}
    /\ ret.x.value.bits # 0 .. weight.assignment_count - 1

\* =========================================================== SpecMonotone
\* transfer_forward of one block applied to two inputs over the universe of
\* the graph: in_value and a second fact, held in other_reach.
InitMonotone ==
    /\ \E lead \in SeqsUpTo({"a"}, 1), body \in SeqsUpTo(ReachVars \cup {""}, MaxIrs) :
          /\ irs_range = NumberBlocks(<<lead, body>>)
          /\ weight = ComputeWeight(irs_range)
          /\ in_value \in ReachLattices(weight.assignment_count)
          /\ other_reach \in ReachLattices(weight.assignment_count)
          /\ reach_in = [b \in 1 .. 2 |-> top(weight)]
          /\ reach_out = [b \in 1 .. 2 |-> top(weight)]
    /\ edges = {<<1, 2>>}
    /\ worklist = <<>>
    /\ pc = "idle"
    /\ runs = 0
    /\ changes = 0
    /\ snapshot = None
    /\ self_reach = ReachLattice_new(0)
    /\ self_bool = FALSE
    /\ other_bool = FALSE
    /\ BuildIdle
    /\ ret = NoCall

TransferPair(b) ==
    /\ ret' = [op |-> "transfer_pair", block |-> b,
               in1 |-> in_value, in2 |-> other_reach,
               out1 |-> transfer_forward(irs_range[b], in_value, weight),
               out2 |-> transfer_forward(irs_range[b], other_reach, weight)]
    /\ UNCHANGED <<latticeVars, graphVars, buildVars>>

NextMonotone == \E b \in DOMAIN irs_range : TransferPair(b)

SpecMonotone == InitMonotone /\ [][NextMonotone]_vars

\* C18 (monotone transfer): for every block and every two inputs in1, in2 over
\* the graph's universe with in1 a subset of in2, transfer_forward(in1) is a
\* subset of transfer_forward(in2).
C18_TransferMonotone ==
    (ret.op = "transfer_pair" /\ Bits(ret.in1) \subseteq Bits(ret.in2))
    => Bits(ret.out1) \subseteq Bits(ret.out2)

\* A block of at least two Assignments was applied to a non-empty input and
\* to a strictly larger one.
C18_Witness ==
    /\ ret.op = "transfer_pair"
    /\ Bits(ret.in1) # {}
    /\ Bits(ret.in1) \subseteq Bits(ret.in2)
    /\ Bits(ret.in1) # Bits(ret.in2)
    /\ Cardinality({i \in DOMAIN irs_range[ret.block] :
                       irs_range[ret.block][i].kind = "Assignment"}) >= 2

\* ============================================================== SpecSolve
\* The forward worklist solver over one Function's graph. Block 1 is the entry
\* block; the edges are any relation on the blocks (cycles, self-loops and
\* unreachable blocks included); each block holds at most one Assignment.

\* Largest number of blocks of a graph.
MaxBlocks == 2

\* Solver runs on one graph: the first and the re-runs.
MaxRuns == 2

EntryBlock == 1

SolveVars == {"a"}

\* The change counter saturates one above the largest bound it is compared to.
ChangeCap == (MaxBlocks + 1) * (MaxBlocks + 1) + 1

Preds(b) == {e[1] : e \in {x \in edges : x[2] = b}}
Succs(b) == {e[2] : e \in {x \in edges : x[1] = b}}

Min(S) == CHOOSE x \in S : \A y \in S : x <= y

\* The members of a set of block indices as a sequence in increasing order.
RECURSIVE InOrder(_)
InOrder(S) == IF S = {} THEN <<>> ELSE <<Min(S)>> \o InOrder(S \ {Min(S)})

Range(q) == {q[i] : i \in DOMAIN q}

\* The meet of the out facts of the blocks in S, folded from `acc` with
\* SemiLattice::meet.
RECURSIVE MeetOuts(_, _)
MeetOuts(acc, S) ==
    IF S = {} THEN acc
    ELSE MeetOuts(reach_meet(acc, reach_out[Min(S)]), S \ {Min(S)})

InitSolve ==
    /\ GraphIdle
    /\ LatticeIdle
    /\ BuildIdle
    /\ ret = NoCall

\* The front end builds the Function's graph: the blocks with their numbered
\* instructions, the edges, the graph weight, and every fact at top.
BuildGraph ==
    /\ pc = "idle"
    /\ irs_range = <<>>
    /\ \E nb \in 1 .. MaxBlocks :
          /\ \E protoBlocks \in [1 .. nb -> SeqsUpTo(SolveVars, 1)] :
                /\ irs_range' = NumberBlocks(protoBlocks)
                /\ weight' = ComputeWeight(irs_range')
          /\ edges' \in SUBSET ((1 .. nb) \X (1 .. nb))
          /\ reach_in' = [b \in 1 .. nb |-> top(weight')]
          /\ reach_out' = [b \in 1 .. nb |-> top(weight')]
    /\ ret' = [op |-> "build_graph"]
    /\ UNCHANGED <<in_value, worklist, pc, runs, changes, snapshot, latticeVars, buildVars>>

\* A run starts: every non-entry block's in is top, the entry block's out is
\* entry_out, and the worklist holds all blocks.
SolveStart ==
    /\ pc \in {"idle", "done"}
    /\ irs_range # <<>>
    /\ runs < MaxRuns
    /\ snapshot' = IF pc = "done"
                   THEN Some([reach_in |-> reach_in, reach_out |-> reach_out])
                   ELSE None
    /\ reach_in' = [b \in DOMAIN reach_in |->
                      IF b = EntryBlock THEN reach_in[b] ELSE top(weight)]
    /\ reach_out' = [reach_out EXCEPT ![EntryBlock] = entry_out(weight)]
    /\ worklist' = InOrder(DOMAIN irs_range)
    /\ pc' = "running"
    /\ changes' = 0
    /\ ret' = [op |-> "solve_start"]
    /\ UNCHANGED <<weight, irs_range, edges, in_value, runs, latticeVars, buildVars>>

\* One round: pop a block, set its in to the meet of its predecessors' out
\* (entry_out for the entry block), meet its out with transfer_forward(in),
\* and push its successors when meet_with reports a change.
SolveStep ==
    /\ pc = "running"
    /\ worklist # <<>>
    /\ LET b       == Head(worklist)
           rest    == Tail(worklist)
           new_in  == IF b = EntryBlock THEN entry_out(weight)
                      ELSE MeetOuts(top(weight), Preds(b))
           new_out == transfer_forward(irs_range[b], new_in, weight)
           r       == reach_meet_with(reach_out[b], new_out)
           pushed  == IF r[2] THEN InOrder(Succs(b) \ Range(rest)) ELSE <<>>
       IN /\ reach_in' = [reach_in EXCEPT ![b] = new_in]
          /\ reach_out' = [reach_out EXCEPT ![b] = r[1]]
          /\ worklist' = rest \o pushed
          /\ changes' = IF r[2] /\ changes < ChangeCap THEN changes + 1 ELSE changes
          /\ pc' = IF rest \o pushed = <<>> THEN "done" ELSE "running"
          /\ runs' = IF rest \o pushed = <<>> THEN runs + 1 ELSE runs
          /\ ret' = [op |-> "solve_step", block |-> b, changed |-> r[2]]
    /\ UNCHANGED <<weight, irs_range, edges, in_value, snapshot, latticeVars, buildVars>>

NextSolve == BuildGraph \/ SolveStart \/ SolveStep

SpecSolve == InitSolve /\ [][NextSolve]_vars

\* One run of the solver on a graph.
NextSolveOnce == BuildGraph \/ (runs = 0 /\ SolveStart) \/ SolveStep

\* The solver is a synchronous loop: a round that can run does run.
SpecSolveFair == InitSolve /\ [][NextSolveOnce]_vars /\ WF_vars(SolveStep)

\* C3 (end to end): entry block assigns declaration 0 to Space a and falls
\* through to an exit block that assigns declaration 1 to a: once the solver
\* has finished, entry.out = {0}, exit.in = {0} and exit.out = {1}.
C3_TwoBlockScenario ==
    (/\ pc = "done"
     /\ Len(irs_range) = 2
     /\ edges = {<<1, 2>>}
     /\ irs_range[1] = <<Assignment("a", Some(0))>>
     /\ irs_range[2] = <<Assignment("a", Some(1))>>)
    => /\ Bits(reach_out[1]) = {0}
       /\ Bits(reach_in[2]) = {0}
       /\ Bits(reach_out[2]) = {1}

\* C5 (termination): every run of the solver empties its worklist, and the
\* rounds of a run in which a block's out changed never exceed
\* number_of_blocks * assignment_count.
C5_SolverTerminates ==
    /\ (pc = "running") ~> (pc = "done")
    /\ [](changes <= Len(irs_range) * weight.assignment_count)

HasCycle == \E x \in edges : x[1] = x[2] \/ <<x[2], x[1]>> \in edges

C5_Witness ==
    /\ pc = "done"
    /\ HasCycle
    /\ weight.assignment_count >= 1
    /\ Len(irs_range) = MaxBlocks

\* C10 (idempotence): on a re-run of the solver no round reports a change of a
\* block's out, and when the re-run has finished every block's in and out
\* equal the values the previous run converged to.
C10_RerunIsIdentity ==
    snapshot # None =>
        /\ changes = 0
        /\ ret.op = "solve_step" => ~ret.changed
        /\ pc = "done" => /\ reach_in = snapshot[1].reach_in
                          /\ reach_out = snapshot[1].reach_out

C10_Witness ==
    /\ snapshot # None
    /\ pc = "done"
    /\ runs = 2
    /\ HasCycle
    /\ weight.assignment_count >= 1

\* ================================================================ storage
\* DataType: a tag, the element types (one for an Array, the member types for
\* a Struct) and the Array length.
I64 == [tag |-> "I64", elems |-> <<>>, len |-> 0]
Bool == [tag |-> "Bool", elems |-> <<>>, len |-> 0]
ArrayTy(elem_ty, len) == [tag |-> "Array", elems |-> <<elem_ty>>, len |-> len]
StructTy(members) == [tag |-> "Struct", elems |-> members, len |-> 0]

\* Scope::Global and Scope::Local { fn_name_id }.
Global == [kind |-> "Global", fn_name_id |-> None]
Local(fn_name_id) == [kind |-> "Local", fn_name_id |-> Some(fn_name_id)]

\* FlatLattice<Value>: Top and Value(v).
FlatTop == [tag |-> "Top", value |-> None]
FlatValue(v) == [tag |-> "Value", value |-> Some(v)]

\* Value::Int, Value::Array, Value::Void.
IntValue(i) == [tag |-> "Int", int |-> Some(i), members |-> <<>>]
ArrayValue(members) == [tag |-> "Array", int |-> None, members |-> members]
VoidValue == [tag |-> "Void", int |-> None, members |-> <<>>]

\* Space with SpaceSignature::Normal(data_type, members).
Space(data_type, members, scope, value) ==
    [signature |-> [kind |-> "Normal", data_type |-> data_type, members |-> members],
     scope |-> scope, value |-> value]

\* The member types the match on data_type declares: the element type len
\* times for an Array, the member types for a Struct, none otherwise.
member_types(data_type) ==
    IF data_type = None THEN <<>>
    ELSE IF data_type[1].tag = "Array"
         THEN [i \in 1 .. data_type[1].len |-> data_type[1].elems[1]]
         ELSE IF data_type[1].tag = "Struct" THEN data_type[1].elems ELSE <<>>

\* The builders thread ps = [pools, issued]: the pools and the Space logical
\* ids issued so far.
PoolInsertSpace(ps, pool_key, space) ==
    LET r == pool_insert(ps.pools[pool_key], space) IN
    [ps |-> [pools  |-> [ps.pools EXCEPT ![pool_key] = r.pool],
             issued |-> Append(ps.issued, r.name_id)],
     name_id |-> r.name_id]

RECURSIVE Program_declare_space(_, _, _)
RECURSIVE Program_declare_members(_, _, _)
RECURSIVE Function_declare_space(_, _, _, _)
RECURSIVE Function_declare_members(_, _, _, _)

\* Program::declare_space with the Array elements declared for 1..len.
Program_declare_space_short(ps, data_type, scope) ==
    LET tys   == member_types(data_type)
        r     == Program_declare_members(ps,
                    IF data_type # None /\ data_type[1].tag = "Array" /\ tys # <<>>
                    THEN Tail(tys) ELSE tys, scope)
        space == Space(data_type, r.ids, scope, FlatTop)
    IN PoolInsertSpace(r.ps, "space", space)

\* Program::declare_space whose members are declared in Scope::Global instead
\* of the scope of the call.
Program_declare_space_global_members(ps, data_type, scope) ==
    LET r     == Program_declare_members(ps, member_types(data_type), Global)
        space == Space(data_type, r.ids, scope, FlatTop)
    IN PoolInsertSpace(r.ps, "space", space)

\* The map(...).collect() of Program::declare_space: one recursive
\* declare_space per member type, in order.
Program_declare_members(ps, tys, scope) ==
    IF tys = <<>> THEN [ps |-> ps, ids |-> <<>>]
    ELSE LET first == Program_declare_space(ps, Some(Head(tys)), scope)
             rest  == Program_declare_members(first.ps, Tail(tys), scope)
         IN [ps |-> rest.ps, ids |-> <<first.name_id>> \o rest.ids]

\* Program::declare_space: the members first, then the Space itself, inserted
\* into the space pool with value Top.
Program_declare_space(ps, data_type, scope) ==
    LET r     == Program_declare_members(ps, member_types(data_type), scope)
        space == Space(data_type, r.ids, scope, FlatTop)
    IN PoolInsertSpace(r.ps, "space", space)

\* The Function stored under logical id f.
FunctionOf(ps, f) == ps.pools["function"].items[f]

Function_declare_members(ps, f, tys, scope) ==
    IF tys = <<>> THEN [ps |-> ps, ids |-> <<>>]
    ELSE LET first == Function_declare_space(ps, f, Some(Head(tys)), scope)
             rest  == Function_declare_members(first.ps, f, Tail(tys), scope)
         IN [ps |-> rest.ps, ids |-> <<first.name_id>> \o rest.ids]

\* Function::declare_space: as Program::declare_space, the Space inserted
\* nameless through the Function's locals map.
Function_declare_space(ps, f, data_type, scope) ==
    LET r     == Function_declare_members(ps, f, member_types(data_type), scope)
        space == Space(data_type, r.ids, scope, FlatTop)
    IN PoolInsertSpace(r.ps, FunctionOf(r.ps, f).locals.pool, space)

\* Function::declare_local that leaves the name unbound.
Function_declare_local_unbound(ps, f, name, data_type) ==
    LET r == Function_declare_space(ps, f, data_type, Local(FunctionOf(ps, f).name_id))
    IN [ps |-> r.ps, name_id |-> r.name_id]

\* Function::declare_local: declare_space with Scope::Local of this Function,
\* then the name bound in locals.
Function_declare_local(ps, f, name, data_type) ==
    LET r == Function_declare_space(ps, f, data_type, Local(FunctionOf(ps, f).name_id))
        fn == FunctionOf(r.ps, f)
    IN [ps |-> [r.ps EXCEPT !.pools["function"].items[f].locals =
                    bind(bind_policy, fn.locals, name, r.name_id)],
        name_id |-> r.name_id]

\* Function::lookup_or_insert_space with the global map consulted first.
Function_lookup_or_insert_space_global_first(ps, f, name) ==
    IF name \in DOMAIN globals.names
    THEN [ps |-> ps, name_id |-> globals.names[name]]
    ELSE IF name \in DOMAIN FunctionOf(ps, f).locals.names
         THEN [ps |-> ps, name_id |-> FunctionOf(ps, f).locals.names[name]]
         ELSE Function_declare_local(ps, f, name, None)

\* Function::lookup_or_insert_space: the local binding, else the Program's
\* global binding, else a new local of unknown type.
Function_lookup_or_insert_space(ps, f, name) ==
    IF name \in DOMAIN FunctionOf(ps, f).locals.names
    THEN [ps |-> ps, name_id |-> FunctionOf(ps, f).locals.names[name]]
    ELSE IF name \in DOMAIN globals.names
         THEN [ps |-> ps, name_id |-> globals.names[name]]
         ELSE Function_declare_local(ps, f, name, None)

\* Program::lookup_or_insert_constant that inserts on every call.
Program_lookup_or_insert_constant_always(ps, data_type, value) ==
    LET space == Space(Some(data_type), value.members, Global, FlatValue(value))
        r     == PoolInsertSpace(ps, constants.pool, space)
    IN [ps |-> r.ps, name_id |-> r.name_id,
        constants |-> [constants EXCEPT !.names = (value :> r.name_id) @@ @]]

\* Program::lookup_or_insert_constant whose constructor leaves the value Top.
Program_lookup_or_insert_constant_top(ps, data_type, value) ==
    IF value \in DOMAIN constants.names
    THEN [ps |-> ps, name_id |-> constants.names[value], constants |-> constants]
    ELSE LET space == Space(Some(data_type), value.members, Global, FlatTop)
             r     == PoolInsertSpace(ps, constants.pool, space)
         IN [ps |-> r.ps, name_id |-> r.name_id,
             constants |-> [constants EXCEPT !.names = (value :> r.name_id) @@ @]]

\* Program::lookup_or_insert_constant that, for a value already bound, stores
\* the type of the call in the existing Space's signature.
Program_lookup_or_insert_constant_retype(ps, data_type, value) ==
    IF value \in DOMAIN constants.names
    THEN [ps |-> [ps EXCEPT !.pools[constants.pool].items[constants.names[value]]
                                .signature.data_type = Some(data_type)],
          name_id |-> constants.names[value], constants |-> constants]
    ELSE LET space == Space(Some(data_type), value.members, Global, FlatValue(value))
             r     == PoolInsertSpace(ps, constants.pool, space)
         IN [ps |-> r.ps, name_id |-> r.name_id,
             constants |-> [constants EXCEPT !.names = (value :> r.name_id) @@ @]]

\* Program::lookup_or_insert_constant: constants.get_id_or_insert keyed by the
\* value; the constructor runs, and the value is bound, only for a value not
\* yet bound.
Program_lookup_or_insert_constant(ps, data_type, value) ==
    IF value \in DOMAIN constants.names
    THEN [ps |-> ps, name_id |-> constants.names[value], constants |-> constants]
    ELSE LET space == Space(Some(data_type), value.members, Global, FlatValue(value))
             r     == PoolInsertSpace(ps, constants.pool, space)
         IN [ps |-> r.ps, name_id |-> r.name_id,
             constants |-> [constants EXCEPT !.names = (value :> r.name_id) @@ @]]

\* Program::declare_global: declare_space with Scope::Global, then the name
\* bound in globals.
Program_declare_global(ps, name, data_type) ==
    LET r == Program_declare_space(ps, data_type, Global) IN
    [ps |-> r.ps, name_id |-> r.name_id,
     globals |-> bind(bind_policy, globals, name, r.name_id)]

\* Program::lookup_or_insert_global: the global binding, else declare_global
\* with unknown type.
Program_lookup_or_insert_global(ps, name) ==
    IF name \in DOMAIN globals.names
    THEN [ps |-> ps, name_id |-> globals.names[name], globals |-> globals]
    ELSE Program_declare_global(ps, name, None)

\* Function::new as called by Program::lookup_or_insert_function: the locals
\* map is created from the space pool, the blocks map from the block pool.
Function_new(name, name_id, locals, blocks) ==
    [name |-> name, name_id |-> name_id, locals |-> locals, blocks |-> blocks]

\* AddressMarker::new.
AddressMarker_new(block_id) == [block_id |-> block_id]

\* CodeBlock::new(id, BlockType::Normal, vec![], Jump(Next)) as constructed by
\* lookup_or_insert_block.
CodeBlock_new(id, block_type, irs, terminator) ==
    [id |-> id, block_type |-> block_type, irs_range |-> irs, terminator |-> terminator]

\* Function::lookup_or_insert_block that constructs a block on every call and
\* rebinds the name to it.
Function_lookup_or_insert_block_always(pls, f, name) ==
    LET blocks  == pls["function"].items[f].blocks
        name_id == pls[blocks.pool].next
        block   == CodeBlock_new(name_id, "Normal", <<>>, JumpNext)
        r       == pool_insert(pls[blocks.pool], block)
        pls1    == [pls EXCEPT ![blocks.pool] = r.pool]
    IN [pools |-> [pls1 EXCEPT !["function"].items[f].blocks.names =
                      (name :> name_id) @@ @],
        name_id |-> name_id]

\* Function::lookup_or_insert_block: blocks.get_id_or_insert; for a name not
\* yet bound the constructor builds an empty Normal block ending in Jump(Next)
\* under the next logical id of the block pool, and the name is bound to it.
Function_lookup_or_insert_block(pls, f, name) ==
    LET blocks == pls["function"].items[f].blocks IN
    IF name \in DOMAIN blocks.names
    THEN [pools |-> pls, name_id |-> blocks.names[name]]
    ELSE LET name_id == pls[blocks.pool].next
             block   == CodeBlock_new(name_id, "Normal", <<>>, JumpNext)
             r       == pool_insert(pls[blocks.pool], block)
             pls1    == [pls EXCEPT ![blocks.pool] = r.pool]
         IN [pools |-> [pls1 EXCEPT !["function"].items[f].blocks.names =
                           (name :> name_id) @@ @],
             name_id |-> name_id]

\* ============================================================== SpecBuild
\* The builder calls a front end makes on one Program, in any order.

\* Most Spaces a Program holds (SpecBuild).
MaxSpaces == 3

\* Longest Array type declared (SpecDeclare).
MaxArrayLen == 2

\* Most declare_space calls made on one Program (SpecDeclare).
MaxDeclCalls == 2

Names == {"x"}
FnNames == {"f", "g"}
ConstValues == {IntValue(1), IntValue(2)}

\* The values and types SpecConst requests constants with.
ConstTypes == {I64, Bool}
AllConstValues == ConstValues \cup {VoidValue}

\* The types SpecBuild declares: unknown, and an aggregate of one member.
DeclTypes == {None, Some(ArrayTy(I64, 1))}

\* The types SpecDeclare declares: unknown, scalars, arrays of every length to
\* MaxArrayLen, structs, and aggregates of aggregates.
AggTypes ==
    {None, Some(I64)}
    \cup {Some(ArrayTy(Bool, n)) : n \in 0 .. MaxArrayLen}
    \cup {Some(StructTy(<<I64, Bool>>)),
          Some(ArrayTy(StructTy(<<I64, Bool>>), MaxArrayLen)),
          Some(StructTy(<<ArrayTy(I64, MaxArrayLen), Bool>>))}

FunctionIds == DOMAIN pools["function"].items
Scopes == {Global} \cup {Local(pools["function"].items[f].name_id) : f \in FunctionIds}

PS == [pools |-> pools, issued |-> issued]

\* The model's bound on the Spaces of a Program: a call that would leave more
\* is not made.
Fits == Len(issued') <= MaxSpaces

InitBuild ==
    /\ pools = Program_new.pools
    /\ globals = Program_new.globals
    /\ constants = Program_new.constants
    /\ functions = Program_new.functions
    /\ issued = <<>>
    /\ declared = {}
    /\ const_calls = {}
    /\ bind_policy \in BindPolicies
    /\ FrontIdle
    /\ LatticeIdle
    /\ GraphIdle
    /\ ret = NoCall

ProgramDeclareSpace(data_type, scope) ==
    LET r == Program_declare_space(PS, data_type, scope) IN
    /\ pools' = r.ps.pools
    /\ issued' = r.ps.issued
    /\ ret' = [op |-> "declare_space", data_type |-> data_type, scope |-> scope,
               name_id |-> r.name_id, issued_before |-> Len(issued)]
    /\ UNCHANGED <<globals, constants, functions, declared, const_calls, bind_policy,
                   latticeVars, graphVars, frontVars>>

DeclareGlobal(name, data_type) ==
    LET r == Program_declare_global(PS, name, data_type) IN
    /\ pools' = r.ps.pools
    /\ issued' = r.ps.issued
    /\ globals' = r.globals
    /\ declared' = declared \cup {[scope |-> Global, name |-> name, name_id |-> r.name_id]}
    /\ ret' = [op |-> "declare_space", data_type |-> data_type, scope |-> Global,
               name_id |-> r.name_id, issued_before |-> Len(issued)]
    /\ UNCHANGED <<constants, functions, const_calls, bind_policy, latticeVars, graphVars, frontVars>>

LookupOrInsertGlobal(name) ==
    LET r == Program_lookup_or_insert_global(PS, name) IN
    /\ pools' = r.ps.pools
    /\ issued' = r.ps.issued
    /\ globals' = r.globals
    /\ declared' = IF name \in DOMAIN globals.names THEN declared
                   ELSE declared \cup {[scope |-> Global, name |-> name,
                                        name_id |-> r.name_id]}
    /\ ret' = [op |-> "lookup_or_insert_global", name |-> name, name_id |-> r.name_id,
               issued_before |-> Len(issued)]
    /\ UNCHANGED <<constants, functions, const_calls, bind_policy, latticeVars, graphVars, frontVars>>

LookupOrInsertConstant(data_type, value) ==
    LET r == Program_lookup_or_insert_constant(PS, data_type, value) IN
    /\ pools' = r.ps.pools
    /\ issued' = r.ps.issued
    /\ constants' = r.constants
    /\ const_calls' = const_calls \cup {[value |-> value, name_id |-> r.name_id]}
    /\ ret' = [op |-> "lookup_or_insert_constant", data_type |-> data_type,
               value |-> value, name_id |-> r.name_id, issued_before |-> Len(issued)]
    /\ UNCHANGED <<globals, functions, declared, bind_policy, latticeVars, graphVars, frontVars>>

\* Program::lookup_or_insert_function: functions.get_id_or_insert; a new
\* Function gets the next logical id of the function pool.
LookupOrInsertFunction(name) ==
    /\ IF name \in DOMAIN functions.names
       THEN /\ ret' = [op |-> "lookup_or_insert_function", name |-> name,
                       name_id |-> functions.names[name]]
            /\ UNCHANGED <<pools, functions>>
       ELSE LET name_id == pools[functions.pool].next
                fn == Function_new(name, name_id, create_map("space"), create_map("block"))
                r  == pool_insert(pools[functions.pool], fn)
            IN /\ pools' = [pools EXCEPT ![functions.pool] = r.pool]
               /\ functions' = [functions EXCEPT !.names = (name :> name_id) @@ @]
               /\ ret' = [op |-> "lookup_or_insert_function", name |-> name,
                          name_id |-> name_id]
    /\ UNCHANGED <<globals, constants, issued, declared, const_calls, bind_policy,
                   latticeVars, graphVars, frontVars>>

FunctionDeclareSpace(f, data_type, scope) ==
    LET r == Function_declare_space(PS, f, data_type, scope) IN
    /\ pools' = r.ps.pools
    /\ issued' = r.ps.issued
    /\ ret' = [op |-> "declare_space", data_type |-> data_type, scope |-> scope,
               name_id |-> r.name_id, issued_before |-> Len(issued)]
    /\ UNCHANGED <<globals, constants, functions, declared, const_calls, bind_policy,
                   latticeVars, graphVars, frontVars>>

DeclareLocal(f, name, data_type) ==
    LET r == Function_declare_local(PS, f, name, data_type) IN
    /\ pools' = r.ps.pools
    /\ issued' = r.ps.issued
    /\ declared' = declared \cup {[scope |-> Local(f), name |-> name, name_id |-> r.name_id]}
    /\ ret' = [op |-> "declare_space", data_type |-> data_type, scope |-> Local(f),
               name_id |-> r.name_id, issued_before |-> Len(issued)]
    /\ UNCHANGED <<globals, constants, functions, const_calls, bind_policy,
                   latticeVars, graphVars, frontVars>>

LookupOrInsertSpace(f, name) ==
    LET r == Function_lookup_or_insert_space(PS, f, name) IN
    /\ pools' = r.ps.pools
    /\ issued' = r.ps.issued
    /\ declared' = IF Len(r.ps.issued) = Len(issued) THEN declared
                   ELSE declared \cup {[scope |-> Local(f), name |-> name,
                                        name_id |-> r.name_id]}
    /\ ret' = [op |-> "lookup_or_insert_space", f |-> f, name |-> name,
               name_id |-> r.name_id, issued_before |-> Len(issued),
               declared_before |-> declared]
    /\ UNCHANGED <<globals, constants, functions, const_calls, bind_policy,
                   latticeVars, graphVars, frontVars>>

NextBuild ==
    \/ \E t \in DeclTypes : ProgramDeclareSpace(t, Global) /\ Fits
    \/ \E n \in Names : DeclareGlobal(n, None) /\ Fits
    \/ \E n \in Names : LookupOrInsertGlobal(n) /\ Fits
    \/ \E v \in ConstValues : LookupOrInsertConstant(I64, v) /\ Fits
    \/ \E n \in FnNames : LookupOrInsertFunction(n)
    \/ \E f \in FunctionIds, t \in DeclTypes :
          FunctionDeclareSpace(f, t, Local(FunctionOf(PS, f).name_id)) /\ Fits
    \/ \E f \in FunctionIds, n \in Names : DeclareLocal(f, n, None) /\ Fits
    \/ \E f \in FunctionIds, n \in Names : LookupOrInsertSpace(f, n) /\ Fits

SpecBuild == InitBuild /\ [][NextBuild]_vars

\* ============================================================== SpecConst
\* lookup_or_insert_constant with every pairing of type and value, interleaved
\* with declarations of other global Spaces.
NextConst ==
    \/ \E t \in ConstTypes, v \in AllConstValues : LookupOrInsertConstant(t, v) /\ Fits
    \/ \E t \in DeclTypes : ProgramDeclareSpace(t, Global) /\ Fits
    \/ \E n \in Names : DeclareGlobal(n, None) /\ Fits

SpecConst == InitBuild /\ [][NextConst]_vars

\* ============================================================ SpecDeclare
\* declare_space on type trees: at most MaxDeclCalls calls on one Program,
\* through the Program or through one of its Functions, in any scope.

\* The Spaces that are no member of another Space: one per declare_space call.
Roots ==
    LET items == pools["space"].items IN
    {i \in DOMAIN items :
        \A j \in DOMAIN items :
            \A k \in DOMAIN items[j].signature.members :
                items[j].signature.members[k] # i}

NextDeclare ==
    \/ LookupOrInsertFunction("f")
    \/ /\ Cardinality(Roots) < MaxDeclCalls
       /\ \E t \in AggTypes, sc \in Scopes : ProgramDeclareSpace(t, sc)
    \/ /\ Cardinality(Roots) < MaxDeclCalls
       /\ \E f \in FunctionIds, t \in AggTypes, sc \in Scopes :
             FunctionDeclareSpace(f, t, sc)

SpecDeclare == InitBuild /\ [][NextDeclare]_vars

\* ============================================================= SpecBlocks
\* The front end's block calls on the Functions of one Program: a jump to a
\* label and the declaration of a label both resolve the name with
\* lookup_or_insert_block; a jump keeps the id in an AddressMarker.

\* Most blocks a Program holds (SpecBlocks).
MaxLabels == 3

BlockNames == {"L1", "L2"}
Finished == {x.f : x \in finished}
Purposes == {"jump", "label"}

LookupOrInsertBlock(f, name, purpose) ==
    LET r == Function_lookup_or_insert_block(pools, f, name) IN
    /\ f \notin Finished
    /\ pools' = r.pools
    /\ block_calls' = block_calls \cup {[f |-> f, name |-> name, name_id |-> r.name_id]}
    /\ markers' = IF purpose = "jump"
                  THEN markers \cup {[f |-> f, name |-> name,
                                      marker |-> AddressMarker_new(r.name_id)]}
                  ELSE markers
    /\ labels' = IF purpose = "label"
                 THEN labels \cup {[f |-> f, name |-> name, name_id |-> r.name_id]}
                 ELSE labels
    /\ ret' = [op |-> "lookup_or_insert_block", f |-> f, name |-> name,
               purpose |-> purpose, name_id |-> r.name_id,
               next_before |-> pools["block"].next,
               calls_before |-> block_calls]
    /\ UNCHANGED <<globals, constants, functions, issued, declared, const_calls,
                   bind_policy, finished, latticeVars, graphVars>>

\* The build errors a Function carries when its construction ends: the
\* builder calls of Function return logical ids and handles only, and Function
\* holds no record of an error.
Function_build_errors(f) == {}

\* The front end ends the construction of Function f: no further builder call
\* is made on it, and the Function is handed on as it stands.
EndFunction(f) ==
    /\ f \notin Finished
    /\ finished' = finished \cup {[f |-> f, errors |-> Function_build_errors(f)]}
    /\ ret' = [op |-> "end_function", f |-> f]
    /\ UNCHANGED <<pools, globals, constants, functions, issued, declared, const_calls,
                   bind_policy, block_calls, markers, labels, latticeVars, graphVars>>

NextBlocks ==
    \/ \E n \in FnNames : LookupOrInsertFunction(n)
    \/ \E f \in FunctionIds, n \in BlockNames, p \in Purposes :
          LookupOrInsertBlock(f, n, p) /\ pools'["block"].next - 1 <= MaxLabels
    \/ \E f \in FunctionIds : EndFunction(f)

SpecBlocks == InitBuild /\ [][NextBlocks]_vars

\* ------------------------------------------------------ storage properties
SpaceItems == pools["space"].items
BlockItems == pools["block"].items

\* C6 (id monotonicity): every Space logical id issued, through the Program,
\* any Function, the constants map or an implicit local, is strictly greater
\* than every Space logical id issued before it.
C6_IssuedIdsIncrease ==
    \A i, j \in DOMAIN issued : i < j => issued[i] < issued[j]

ConstantIds == {c.name_id : c \in const_calls}

C6_Witness ==
    /\ Len(issued) = MaxSpaces
    /\ \E i, j, k \in DOMAIN issued :
          /\ i < j /\ j < k
          /\ issued[j] \in ConstantIds
          /\ \E d \in declared : d.name_id = issued[i] /\ d.scope # Global
          /\ \E d \in declared : d.name_id = issued[k] /\ d.scope = Global

\* The logical ids declared under `name` in `scope` before the last call.
DeclaredBefore(scope, name) ==
    {d.name_id : d \in {e \in ret.declared_before : e.scope = scope /\ e.name = name}}

\* C7 (scoping precedence): lookup_or_insert_space(x) in Function F returns a
\* local x of F once one is declared, whether or not a global x exists; with no
\* local x of F and a global x it returns the global; neither case declares a
\* Space.
C7_ScopingPrecedence ==
    ret.op = "lookup_or_insert_space" =>
        LET loc  == DeclaredBefore(Local(ret.f), ret.name)
            glob == DeclaredBefore(Global, ret.name)
        IN /\ loc # {} => /\ ret.name_id \in loc
                          /\ SpaceItems[ret.name_id].scope = Local(ret.f)
                          /\ Len(issued) = ret.issued_before
           /\ (loc = {} /\ glob # {}) => /\ ret.name_id \in glob
                                         /\ SpaceItems[ret.name_id].scope = Global
                                         /\ Len(issued) = ret.issued_before

\* A lookup that found both a local and a global, the global declared later.
C7_Witness ==
    /\ ret.op = "lookup_or_insert_space"
    /\ \E l \in DeclaredBefore(Local(ret.f), ret.name) :
          \E g \in DeclaredBefore(Global, ret.name) : l < g

\* C8 (constant deduplication): two lookup_or_insert_constant calls return the
\* same Space logical id exactly when their values are equal.
C8_ConstantDedup ==
    \A c1, c2 \in const_calls :
        (c1.value = c2.value) <=> (c1.name_id = c2.name_id)

\* Two values were requested, other Spaces were allocated in between, and the
\* last call found its value already bound.
C8_Witness ==
    /\ ret.op = "lookup_or_insert_constant"
    /\ Len(issued) = ret.issued_before
    /\ Cardinality(const_calls) = 2
    /\ \E i, j, k \in DOMAIN issued :
          /\ i < j /\ j < k
          /\ issued[i] \in ConstantIds
          /\ issued[j] \notin ConstantIds
          /\ issued[k] \in ConstantIds

\* The Space logical ids issued by the last call.
IssuedByCall == {issued[i] : i \in (ret.issued_before + 1) .. Len(issued)}

\* The Space under `id` has signature type data_type and the member list the
\* type asks for: len members of the element type for an Array, one member per
\* member type for a Struct, none otherwise; the members were allocated by the
\* last call, are listed in increasing (allocation) order, and are themselves
\* so decomposed.
RECURSIVE Decomposed(_, _)
Decomposed(id, data_type) ==
    LET sig == SpaceItems[id].signature
        ms  == sig.members
    IN /\ sig.kind = "Normal"
       /\ sig.data_type = data_type
       /\ \A k \in DOMAIN ms : ms[k] \in IssuedByCall
       /\ \A k, l \in DOMAIN ms : k < l => ms[k] < ms[l]
       /\ IF data_type = None THEN ms = <<>>
          ELSE IF data_type[1].tag = "Array"
               THEN /\ Len(ms) = data_type[1].len
                    /\ \A k \in DOMAIN ms : Decomposed(ms[k], Some(data_type[1].elems[1]))
               ELSE IF data_type[1].tag = "Struct"
                    THEN /\ Len(ms) = Len(data_type[1].elems)
                         /\ \A k \in DOMAIN ms :
                               Decomposed(ms[k], Some(data_type[1].elems[k]))
                    ELSE ms = <<>>

\* C9 (aggregate decomposition): the Space a declare_space call returns is
\* decomposed as its type asks, recursively.
C9_AggregateDecomposition ==
    ret.op = "declare_space" => Decomposed(ret.name_id, ret.data_type)

\* An array of structs was declared on a Program that already held Spaces.
C9_Witness ==
    /\ ret.op = "declare_space"
    /\ ret.issued_before > 0
    /\ ret.data_type = Some(ArrayTy(StructTy(<<I64, Bool>>), MaxArrayLen))
    /\ Len(SpaceItems[ret.name_id].signature.members) = MaxArrayLen

\* C11 (forward-referenced blocks): lookup_or_insert_block(name) on a name not
\* yet looked up in the Function creates exactly one block, empty and ending
\* in Jump(Next), under a new logical id; on a name looked up before in that
\* Function it returns the id the earlier calls returned and creates no block.
C11_BlockLookupOrInsert ==
    ret.op = "lookup_or_insert_block" =>
        LET before == {c \in ret.calls_before : c.f = ret.f /\ c.name = ret.name}
        IN /\ before = {} =>
                 /\ ret.name_id = ret.next_before
                 /\ ret.name_id \notin {c.name_id : c \in ret.calls_before}
                 /\ pools["block"].next = ret.next_before + 1
                 /\ BlockItems[ret.name_id].irs_range = <<>>
                 /\ BlockItems[ret.name_id].terminator = JumpNext
           /\ before # {} =>
                 /\ \A c \in before : c.name_id = ret.name_id
                 /\ pools["block"].next = ret.next_before

\* A label declared after a jump to it, with a block of another name or
\* Function created in between.
C11_Witness ==
    /\ ret.op = "lookup_or_insert_block"
    /\ ret.purpose = "label"
    /\ \E m \in markers : /\ m.f = ret.f /\ m.name = ret.name
                          /\ m.marker.block_id = ret.name_id
    /\ \E c \in ret.calls_before : c.name_id > ret.name_id
    /\ \E c \in ret.calls_before : c.f # ret.f /\ c.name = ret.name

\* C12 (implicit local declaration): lookup_or_insert_space(name) in Function
\* F, with name declared neither in F nor globally, allocates exactly one
\* Space, of scope Local{F}, unknown type, no members and value Top, returns
\* its logical id and binds name in F's locals, so that the same lookup made
\* again returns that id and allocates nothing.
C12_ImplicitLocal ==
    (/\ ret.op = "lookup_or_insert_space"
     /\ DeclaredBefore(Local(ret.f), ret.name) = {}
     /\ DeclaredBefore(Global, ret.name) = {})
    => /\ Len(issued) = ret.issued_before + 1
       /\ issued[Len(issued)] = ret.name_id
       /\ SpaceItems[ret.name_id] = Space(None, <<>>, Local(ret.f), FlatTop)
       /\ ret.name \in DOMAIN FunctionOf(PS, ret.f).locals.names
       /\ FunctionOf(PS, ret.f).locals.names[ret.name] = ret.name_id
       /\ LET again == Function_lookup_or_insert_space(PS, ret.f, ret.name)
          IN again.name_id = ret.name_id /\ again.ps = PS

\* An implicit local was declared in one Function while another Function
\* already held a local of that name, on a Program that held other Spaces.
C12_Witness ==
    /\ ret.op = "lookup_or_insert_space"
    /\ Len(issued) = ret.issued_before + 1
    /\ ret.issued_before >= 2
    /\ \E d \in ret.declared_before :
          d.name = ret.name /\ d.scope.kind = "Local" /\ d.scope # Local(ret.f)

\* C14 (constants are fully known): the Space every lookup_or_insert_constant
\* call returned has value Value(v) for the value v asked for and scope
\* Global, and every Space a declare_space, declare_local, declare_global or
\* implicit declaration has just created has value Top.
C14_ConstantsFullyKnown ==
    /\ \A c \in const_calls :
          /\ SpaceItems[c.name_id].value = FlatValue(c.value)
          /\ SpaceItems[c.name_id].scope = Global
    /\ ret.op \in {"declare_space", "lookup_or_insert_space", "lookup_or_insert_global"}
          => \A id \in IssuedByCall : SpaceItems[id].value = FlatTop

\* A constant was found again after named and nameless Spaces, of a Program
\* and of a Function, were declared after it.
C14_Witness ==
    /\ ret.op = "lookup_or_insert_constant"
    /\ Len(issued) = ret.issued_before
    /\ \E id \in DOMAIN SpaceItems :
          id > ret.name_id /\ SpaceItems[id].scope.kind = "Local"
    /\ \E id \in DOMAIN SpaceItems :
          id > ret.name_id /\ SpaceItems[id].scope = Global /\ id \notin ConstantIds

\* The nodes of the type tree of data_type: the type itself and, for an Array
\* or a Struct, the nodes of each member type.
RECURSIVE TypeNodes(_)
RECURSIVE TypeNodesOfAll(_)
TypeNodes(data_type) == 1 + TypeNodesOfAll(member_types(data_type))
TypeNodesOfAll(tys) ==
    IF tys = <<>> THEN 0 ELSE TypeNodes(Some(Head(tys))) + TypeNodesOfAll(Tail(tys))

\* The members of the Space under `id`, at every nesting depth.
RECURSIVE TransitiveMembers(_)
TransitiveMembers(id) ==
    LET ms == SpaceItems[id].signature.members
    IN {ms[k] : k \in DOMAIN ms} \cup UNION {TransitiveMembers(ms[k]) : k \in DOMAIN ms}

\* C19 (members before aggregate): a declare_space call allocates one Space
\* per node of the type tree, the aggregate's own Space last; every member, at
\* every depth, has a smaller logical id than the Space it is a member of and
\* than the returned id, and carries the scope of the call.
C19_MembersBeforeAggregate ==
    ret.op = "declare_space" =>
        LET all == TransitiveMembers(ret.name_id) IN
        /\ Len(issued) - ret.issued_before = TypeNodes(ret.data_type)
        /\ issued[Len(issued)] = ret.name_id
        /\ IssuedByCall = all \cup {ret.name_id}
        /\ \A m \in all : /\ m < ret.name_id
                          /\ SpaceItems[m].scope = ret.scope
                          /\ \A n \in TransitiveMembers(m) : n < m

\* A struct holding an array was declared in the scope of a Function on a
\* Program that already held Spaces.
C19_Witness ==
    /\ ret.op = "declare_space"
    /\ ret.issued_before > 0
    /\ ret.scope.kind = "Local"
    /\ ret.data_type = Some(StructTy(<<ArrayTy(I64, MaxArrayLen), Bool>>))
    /\ Cardinality(TransitiveMembers(ret.name_id)) = MaxArrayLen + 2

\* C21 (a deduplicated constant lookup changes nothing): a
\* lookup_or_insert_constant(type2, v) call made when v is already bound
\* returns the bound logical id, issues no id and leaves every pool, and so the
\* existing Space's signature type, members, scope and value, and the
\* constants map as they were, whatever type2 is.
C21_DedupLookupChangesNothing ==
    [][(/\ ret'.op = "lookup_or_insert_constant"
        /\ ret'.value \in DOMAIN constants.names)
       => /\ ret'.name_id = constants.names[ret'.value]
          /\ issued' = issued
          /\ pools' = pools
          /\ constants' = constants]_vars

\* A constant was found again by a call whose type differs from the type the
\* Space was created with.
C21_Witness ==
    /\ ret.op = "lookup_or_insert_constant"
    /\ Len(issued) = ret.issued_before
    /\ SpaceItems[ret.name_id].signature.data_type # Some(ret.data_type)
    /\ SpaceItems[ret.name_id].value = FlatValue(ret.value)
    /\ Len(issued) >= 2

\* The labels Function f jumps to and never declares.
Dangling(f) ==
    {m.name : m \in {x \in markers : x.f = f}}
        \ {l.name : l \in {x \in labels : x.f = f}}

\* C13 (dangling labels): a Function whose construction has ended carries a
\* build error for every label one of its AddressMarkers targets and that was
\* never declared.
C13_DanglingLabelReported ==
    \A x \in finished : Dangling(x.f) \subseteq x.errors

====
